---------------------------- MODULE Spec2Model ----------------------------
(***************************************************************************)
(* Model of scripts/strip-console.py: the line scanner                     *)
(* remove_console_statements, the skip filter should_skip, process_file    *)
(* and main.                                                               *)
(*                                                                         *)
(* A text is a sequence of tokens; the token "\n" is the line separator.   *)
(* A line is a sequence of tokens without "\n".  The tokens that the code  *)
(* looks at are kept apart: " " (whitespace), "(", ")", "{", "}", ";",     *)
(* "__DEV__", "if", "console", "." and the method names.                   *)
(***************************************************************************)
EXTENDS Integers, Sequences, FiniteSets, TLC

VARIABLES
    content,          \* remove_console_statements: the argument text
    lines,            \* content.split('\n')
    new_lines,        \* the lines retained so far
    removed,          \* count of removed statements
    i,                \* 0-based line cursor
    in_dev_block,     \* inside a __DEV__ block
    dev_block_depth,  \* brace counter of the __DEV__ block
    pc,               \* position in remove_console_statements
    result,           \* the returned pair (new_content, removed)
    second,           \* the pair returned for the first pass's own output
    kept,             \* history: indices of the lines appended to new_lines
    dropped,          \* history: <<index, start index>> of every dropped line
    entered,          \* history: indices where a guard was entered from Normal
    guarded           \* history: indices handled in guarded-block mode

scanVars == <<content, lines, new_lines, removed, i, in_dev_block,
              dev_block_depth, pc, result, second, kept, dropped, entered,
              guarded>>

VARIABLES
    root_exists,      \* src_dir.exists()
    disk,             \* the files under src_dir: path -> text
    pending_ts,       \* files rglob('*.ts') has still to yield
    pending_tsx,      \* files rglob('*.tsx') has still to yield
    main_pc,          \* position in main
    total_removed,    \* main: total_removed
    files_modified,   \* main: files_modified
    exit_status,      \* the process's exit status, -1 while it runs
    summary,          \* the totals printed on the last line
    reads,            \* history: paths passed to read_text
    writes,           \* history: <<path, text>> passed to write_text
    failed,           \* history: paths whose read or write raised
    returned          \* history: <<path, value returned by process_file>>

runVars == <<root_exists, disk, pending_ts, pending_tsx, main_pc,
             total_removed, files_modified, exit_status, summary, reads,
             writes, failed, returned>>

vars == <<scanVars, runVars>>

-----------------------------------------------------------------------------
(* Bounds *)

MaxLines == 3

-----------------------------------------------------------------------------
(* Text primitives *)

NL == "\n"

Methods == {"log", "warn", "error", "debug", "info"}

\* tokens whose text contains the substring 'if'
IfTokens == {"if"}

\* str.count(tok)
RECURSIVE Count(_, _)
Count(s, tok) ==
    IF s = <<>> THEN 0
    ELSE (IF Head(s) = tok THEN 1 ELSE 0) + Count(Tail(s), tok)

\* tok in line
Contains(s, tok) == \E k \in 1..Len(s) : s[k] = tok

\* 'if' in line
ContainsIf(s) == \E k \in 1..Len(s) : s[k] \in IfTokens

\* str.lstrip()
RECURSIVE LStrip(_)
LStrip(s) ==
    IF s # <<>> /\ Head(s) = " " THEN LStrip(Tail(s)) ELSE s

\* str.rstrip()
RECURSIVE RStrip(_)
RStrip(s) ==
    IF s # <<>> /\ s[Len(s)] = " " THEN RStrip(SubSeq(s, 1, Len(s) - 1)) ELSE s

\* line.strip()
Strip(s) == RStrip(LStrip(s))

\* content.split('\n'): always at least one line
RECURSIVE Split(_)
Split(text) ==
    IF ~Contains(text, NL) THEN <<text>>
    ELSE LET k == CHOOSE n \in 1..Len(text) :
                      text[n] = NL /\ \A m \in 1..(n - 1) : text[m] # NL
         IN  <<SubSeq(text, 1, k - 1)>> \o Split(SubSeq(text, k + 1, Len(text)))

\* '\n'.join(ls) with a trailing separator (not what the code does)
RECURSIVE JoinTrailingNewline(_)
JoinTrailingNewline(ls) ==
    IF ls = <<>> THEN <<>>
    ELSE Head(ls) \o <<NL>> \o JoinTrailingNewline(Tail(ls))

\* '\n'.join(ls)
RECURSIVE Join(_)
Join(ls) ==
    IF ls = <<>> THEN <<>>
    ELSE IF Len(ls) = 1 THEN Head(ls)
    ELSE Head(ls) \o <<NL>> \o Join(Tail(ls))


-----------------------------------------------------------------------------
(* remove_console_statements: one iteration of the main loop *)

\* re.match(r'^\s*console\.(log|warn|error|debug|info)\s*\(', stripped)
ConsoleStart(s) ==
    LET t == LStrip(s)
    IN  /\ Len(t) >= 4
        /\ t[1] = "console"
        /\ t[2] = "."
        /\ t[3] \in Methods
        /\ LET u == LStrip(SubSeq(t, 4, Len(t)))
           IN  u # <<>> /\ Head(u) = "("

\* stripped.endswith(');') or stripped.endswith(')')
EndsClosed(s) ==
    \/ (Len(s) >= 1 /\ s[Len(s)] = ")")
    \/ (Len(s) >= 2 /\ s[Len(s) - 1] = ")" /\ s[Len(s)] = ";")

\* '__DEV__' in line and ('{' in line or 'if' in line)
GuardTrigger(line) ==
    Contains(line, "__DEV__") /\ (Contains(line, "{") \/ ContainsIf(line))

\* line.count('{') - line.count('}')
BraceDelta(line) == Count(line, "{") - Count(line, "}")

\* line.count('(') - line.count(')')
ParenDelta(line) == Count(line, "(") - Count(line, ")")

\* the line under the cursor (the cursor is 0-based)
LineAt(ls, st) == ls[st.i + 1]

\* lines 56-58: a guard trigger sets the block flag and restarts the depth at 1
Track(ls, st) ==
    IF GuardTrigger(LineAt(ls, st))
    THEN [st EXCEPT !.in_dev_block = TRUE,
                    !.dev_block_depth = 1,
                    !.entered = IF st.in_dev_block THEN @ ELSE @ \cup {st.i}]
    ELSE st

\* a line handled in guarded-block mode, the mode ending only below 0
GuardStepEndsBelowZero(ls, st) ==
    LET t == Track(ls, st)
        d == t.dev_block_depth + BraceDelta(LineAt(ls, st))
    IN  [t EXCEPT !.dev_block_depth = d,
                  !.in_dev_block = ~(d < 0),
                  !.new_lines = Append(@, LineAt(ls, st)),
                  !.kept = Append(@, st.i),
                  !.guarded = @ \cup {st.i},
                  !.i = @ + 1]

\* a line handled in guarded-block mode without the `continue`: a statement
\* complete on the line is appended and counted as well
GuardStepFallsThrough(ls, st) ==
    LET t == Track(ls, st)
        d == t.dev_block_depth + BraceDelta(LineAt(ls, st))
        counted == ConsoleStart(Strip(LineAt(ls, st)))
                       /\ EndsClosed(Strip(LineAt(ls, st)))
    IN  [t EXCEPT !.dev_block_depth = d,
                  !.in_dev_block = ~(d <= 0),
                  !.new_lines = Append(@, LineAt(ls, st)),
                  !.kept = Append(@, st.i),
                  !.guarded = @ \cup {st.i},
                  !.removed = IF counted THEN @ + 1 ELSE @,
                  !.i = @ + 1]

\* lines 60-66: a line handled in guarded-block mode
GuardStep(ls, st) ==
    LET t == Track(ls, st)
        d == t.dev_block_depth + BraceDelta(LineAt(ls, st))
    IN  [t EXCEPT !.dev_block_depth = d,
                  !.in_dev_block = ~(d <= 0),
                  !.new_lines = Append(@, LineAt(ls, st)),
                  !.kept = Append(@, st.i),
                  !.guarded = @ \cup {st.i},
                  !.i = @ + 1]

\* a statement complete on its line, dropped without being counted
SingleStepUncounted(ls, st) ==
    [st EXCEPT !.dropped = @ \cup {<<st.i, st.i>>},
               !.i = @ + 1]

\* lines 71-74: a statement complete on its line
SingleStep(ls, st) ==
    [st EXCEPT !.removed = @ + 1,
               !.dropped = @ \cup {<<st.i, st.i>>},
               !.i = @ + 1]

\* the inner loop going on while the depth is >= 0
RECURSIVE FindEndPastZero(_, _, _)
FindEndPastZero(ls, k, paren_depth) ==
    IF paren_depth >= 0 /\ k + 1 < Len(ls)
    THEN FindEndPastZero(ls, k + 1, paren_depth + ParenDelta(ls[k + 2]))
    ELSE k

\* lines 78-80: the index of the last line of a multi-line statement
RECURSIVE FindEnd(_, _, _)
FindEnd(ls, k, paren_depth) ==
    IF paren_depth > 0 /\ k + 1 < Len(ls)
    THEN FindEnd(ls, k + 1, paren_depth + ParenDelta(ls[k + 2]))
    ELSE k

\* a multi-line statement counted once per line dropped
MultiStepCountsLines(ls, st) ==
    LET last == FindEnd(ls, st.i, ParenDelta(LineAt(ls, st)))
    IN  [st EXCEPT !.removed = @ + (last - st.i + 1),
                   !.dropped = @ \cup {<<k, st.i>> : k \in st.i..last},
                   !.i = last + 1]

\* a multi-line statement, the cursor advanced one line too far
MultiStepSkipsNext(ls, st) ==
    LET last == FindEnd(ls, st.i, ParenDelta(LineAt(ls, st)))
    IN  [st EXCEPT !.removed = @ + 1,
                   !.dropped = @ \cup {<<k, st.i>> : k \in st.i..last},
                   !.i = last + 2]

\* lines 76-83: a multi-line statement
MultiStep(ls, st) ==
    LET last == FindEnd(ls, st.i, ParenDelta(LineAt(ls, st)))
    IN  [st EXCEPT !.removed = @ + 1,
                   !.dropped = @ \cup {<<k, st.i>> : k \in st.i..last},
                   !.i = last + 1]

\* any other line, appended trimmed
KeepStepStripped(ls, st) ==
    [st EXCEPT !.new_lines = Append(@, Strip(LineAt(ls, st))),
               !.kept = Append(@, st.i),
               !.i = @ + 1]

\* lines 85-86: any other line
KeepStep(ls, st) ==
    [st EXCEPT !.new_lines = Append(@, LineAt(ls, st)),
               !.kept = Append(@, st.i),
               !.i = @ + 1]

\* the four paths with the statement test ahead of the guard test
BranchTargetFirst(ls, st) ==
    IF ConsoleStart(Strip(LineAt(ls, st)))
    THEN IF EndsClosed(Strip(LineAt(ls, st))) THEN "single" ELSE "multi"
    ELSE IF Track(ls, st).in_dev_block THEN "guard" ELSE "keep"

\* which of the four paths the iteration takes
Branch(ls, st) ==
    IF Track(ls, st).in_dev_block THEN "guard"
    ELSE IF ConsoleStart(Strip(LineAt(ls, st)))
         THEN IF EndsClosed(Strip(LineAt(ls, st))) THEN "single" ELSE "multi"
         ELSE "keep"

\* lines 52-86: the loop body
ScanStep(ls, st) ==
    CASE Branch(ls, st) = "guard"  -> GuardStep(ls, st)
      [] Branch(ls, st) = "single" -> SingleStep(ls, st)
      [] Branch(ls, st) = "multi"  -> MultiStep(ls, st)
      [] Branch(ls, st) = "keep"   -> KeepStep(ls, st)

\* lines 45-49: the locals before the loop
InitialLocals ==
    [i |-> 0, new_lines |-> <<>>, removed |-> 0, in_dev_block |-> FALSE,
     dev_block_depth |-> 0, kept |-> <<>>, dropped |-> {}, entered |-> {},
     guarded |-> {}]

\* lines 51-86: the loop, run to its end
RECURSIVE ScanAll(_, _)
ScanAll(ls, st) ==
    IF st.i < Len(ls) THEN ScanAll(ls, ScanStep(ls, st)) ELSE st

\* lines 42-88: the function as a whole
remove_console_statements(text) ==
    LET st == ScanAll(Split(text), InitialLocals)
    IN  [text |-> Join(st.new_lines), count |-> st.removed]

-----------------------------------------------------------------------------
(* Input texts *)

L_plain  == <<" ", "x", ";">>
L_single == <<" ", "console", ".", "error", "(", "e", ")", ";">>
L_open   == <<"console", ".", "log", " ", "(">>
L_close  == <<")", ";">>
L_guard  == <<"if", " ", "(", "__DEV__", ")", " ", "{">>
L_block  == <<"if", " ", "(", "x", ")", " ", "{">>
L_rbrace == <<"}">>
L_catch  == <<"}", " ", "catch", " ", "(", "e", ")", " ", "{">>
L_empty  == <<>>
L_rbraces == <<"}", "}">>
L_devcall ==
    <<"console", ".", "log", "(", "__DEV__", ",", " ", "{", "}", ")", ";">>

Catalog ==
    {L_plain, L_single, L_open, L_close, L_guard, L_block, L_rbrace,
     L_catch, L_empty, L_rbraces, L_devcall}

\* const x = 1; / console.log('hi'); / const y = 2;
S_single ==
    << <<"const", " ", "x", " ", "=", " ", "1", ";">>,
       <<"console", ".", "log", "(", "'hi'", ")", ";">>,
       <<"const", " ", "y", " ", "=", " ", "2", ";">> >>

\* console.error( /   'bad', err / ); / next();
S_multi ==
    << <<"console", ".", "error", "(">>,
       <<" ", " ", "'bad'", ",", " ", "err">>,
       <<")", ";">>,
       <<"next", "(", ")", ";">> >>

\* if (__DEV__) { /   console.log('debug'); / } / const z = 3;
S_guard ==
    << L_guard,
       <<" ", " ", "console", ".", "log", "(", "'debug'", ")", ";">>,
       L_rbrace,
       <<"const", " ", "z", " ", "=", " ", "3", ";">> >>

\* a(); / console.log(1); / console.warn(2); / b();
S_two ==
    << <<"a", "(", ")", ";">>,
       <<"console", ".", "log", "(", "1", ")", ";">>,
       <<"console", ".", "warn", "(", "2", ")", ";">>,
       <<"b", "(", ")", ";">> >>

\* try { /   risky(); / } catch (e) { /   console.error(e); / }
S_catch ==
    << <<"try", " ", "{">>,
       <<" ", " ", "risky", "(", ")", ";">>,
       L_catch,
       <<" ", " ", "console", ".", "error", "(", "e", ")", ";">>,
       L_rbrace >>

\* if (__DEV__) { / } / console.log('x');
S_after ==
    << L_guard,
       L_rbrace,
       <<"console", ".", "log", "(", "'x'", ")", ";">> >>

\* a __DEV__ block holding a block that holds a __DEV__ block, then a call
S_nested ==
    << L_guard, L_block, L_guard, L_rbrace, L_rbrace,
       <<" ", " ", "console", ".", "log", "(", "y", ")", ";">>,
       L_rbrace >>

\* console.log(foo(a) /   + bar(b)); / next();
S_unbalanced ==
    << <<"console", ".", "log", "(", "foo", "(", "a", ")">>,
       <<" ", " ", "+", " ", "bar", "(", "b", ")", ")", ";">>,
       <<"next", "(", ")", ";">> >>

\* console.log(x); // note / next();
S_trail ==
    << <<"console", ".", "log", "(", "x", ")", ";", " ", "//", " ", "note">>,
       <<"next", "(", ")", ";">> >>

\* console.log( /   foo( /     a /   ), /   b / ); / next();
S_nestedcall ==
    << <<"console", ".", "log", "(">>,
       <<" ", " ", "foo", "(">>,
       <<" ", " ", " ", " ", "a">>,
       <<" ", " ", ")", ",">>,
       <<" ", " ", "b">>,
       <<")", ";">>,
       <<"next", "(", ")", ";">> >>

\* console.log(__DEV__ ? {} : 0); } / console.log(x);
S_devclose ==
    << <<"console", ".", "log", "(", "__DEV__", " ", "?", " ", "{", "}",
         " ", ":", " ", "0", ")", ";", " ", "}">>,
       <<"console", ".", "log", "(", "x", ")", ";">> >>

Scenarios ==
    {S_single, S_multi, S_guard, S_two, S_catch, S_after, S_nested,
     S_unbalanced, S_trail, S_nestedcall, S_devclose}

\* every sequence of 1..n lines of the catalog
SeqsUpTo(S, n) == UNION {[1..m -> S] : m \in 1..n}

Inputs == SeqsUpTo(Catalog, MaxLines) \cup Scenarios

-----------------------------------------------------------------------------
(* remove_console_statements, step by step *)

NoResult == [text |-> <<>>, count |-> 0]

\* a source tree without files
NoFiles == [f \in {} |-> <<>>]

Locals ==
    [i |-> i, new_lines |-> new_lines, removed |-> removed,
     in_dev_block |-> in_dev_block, dev_block_depth |-> dev_block_depth,
     kept |-> kept, dropped |-> dropped, entered |-> entered,
     guarded |-> guarded]

SetLocals(st) ==
    /\ i' = st.i
    /\ new_lines' = st.new_lines
    /\ removed' = st.removed
    /\ in_dev_block' = st.in_dev_block
    /\ dev_block_depth' = st.dev_block_depth
    /\ kept' = st.kept
    /\ dropped' = st.dropped
    /\ entered' = st.entered
    /\ guarded' = st.guarded

\* the state before the call, main not running
Init ==
    /\ content \in {Join(ls) : ls \in Inputs}
    /\ lines = <<>>
    /\ i = 0
    /\ new_lines = <<>>
    /\ removed = 0
    /\ in_dev_block = FALSE
    /\ dev_block_depth = 0
    /\ kept = <<>>
    /\ dropped = {}
    /\ entered = {}
    /\ guarded = {}
    /\ pc = "call"
    /\ result = NoResult
    /\ second = NoResult
    /\ root_exists = FALSE
    /\ disk = NoFiles
    /\ pending_ts = {}
    /\ pending_tsx = {}
    /\ main_pc = "idle"
    /\ total_removed = 0
    /\ files_modified = 0
    /\ exit_status = -1
    /\ summary = <<>>
    /\ reads = {}
    /\ writes = {}
    /\ failed = {}
    /\ returned = {}

\* lines 44-49
Enter ==
    /\ pc = "call"
    /\ lines' = Split(content)
    /\ SetLocals(InitialLocals)
    /\ pc' = "loop"
    /\ UNCHANGED <<content, result, second>>
    /\ UNCHANGED runVars

InLoop(branch) ==
    /\ pc = "loop"
    /\ i < Len(lines)
    /\ Branch(lines, Locals) = branch

\* lines 55-66
GuardLine ==
    /\ InLoop("guard")
    /\ SetLocals(GuardStep(lines, Locals))
    /\ UNCHANGED <<content, lines, pc, result, second>>
    /\ UNCHANGED runVars

\* lines 69-74
RemoveSingle ==
    /\ InLoop("single")
    /\ SetLocals(SingleStep(lines, Locals))
    /\ UNCHANGED <<content, lines, pc, result, second>>
    /\ UNCHANGED runVars

\* lines 76-83
RemoveMulti ==
    /\ InLoop("multi")
    /\ SetLocals(MultiStep(lines, Locals))
    /\ UNCHANGED <<content, lines, pc, result, second>>
    /\ UNCHANGED runVars

\* lines 85-86
KeepLine ==
    /\ InLoop("keep")
    /\ SetLocals(KeepStep(lines, Locals))
    /\ UNCHANGED <<content, lines, pc, result, second>>
    /\ UNCHANGED runVars

\* line 88
Return ==
    /\ pc = "loop"
    /\ ~(i < Len(lines))
    /\ result' = [text |-> Join(new_lines), count |-> removed]
    /\ pc' = "returned"
    /\ UNCHANGED <<content, lines, i, new_lines, removed, in_dev_block,
                   dev_block_depth, kept, dropped, entered, guarded, second>>
    /\ UNCHANGED runVars

\* the function applied to its own output
Reapply ==
    /\ pc = "returned"
    /\ second' = remove_console_statements(result.text)
    /\ pc' = "done"
    /\ UNCHANGED <<content, lines, i, new_lines, removed, in_dev_block,
                   dev_block_depth, kept, dropped, entered, guarded, result>>
    /\ UNCHANGED runVars

Next ==
    \/ Enter
    \/ GuardLine
    \/ RemoveSingle
    \/ RemoveMulti
    \/ KeepLine
    \/ Return
    \/ Reapply

-----------------------------------------------------------------------------
(* should_skip, process_file and main *)

\* SKIP_PATTERNS, lines 16-25
SKIP_PATTERNS ==
    { <<"node_modules">>,
      <<".test", ".ts">>,
      <<".test", ".ts", "x">>,
      <<"/", "tests", "/">>,
      <<"/", "testing", "/">>,
      <<"/", "__tests__", "/">>,
      <<".spec", ".ts">>,
      <<".spec", ".ts", "x">> }

\* pattern in filepath
IsSubstring(pattern, s) ==
    \E k \in 0..(Len(s) - Len(pattern)) :
        SubSeq(s, k + 1, k + Len(pattern)) = pattern

\* filepath.endswith(pattern)
EndsWith(s, pattern) ==
    /\ Len(s) >= Len(pattern)
    /\ SubSeq(s, Len(s) - Len(pattern) + 1, Len(s)) = pattern

\* a skip filter that looks at the end of the path only
should_skip_suffix(filepath) ==
    \E pattern \in SKIP_PATTERNS : EndsWith(filepath, pattern)

\* lines 91-96
should_skip(filepath) ==
    \E pattern \in SKIP_PATTERNS : IsSubstring(pattern, filepath)

SrcDir == <<"/", "app", "/", "src", "/">>

P_a        == SrcDir \o <<"a", ".ts">>
P_b        == SrcDir \o <<"b", ".ts", "x">>
P_tests    == SrcDir \o <<"tests", "/", "c", ".ts">>
P_testfile == SrcDir \o <<"d", ".test", ".ts", "x">>
P_named    == SrcDir \o <<"tests", ".ts">>

Paths == {P_a, P_b, P_tests, P_testfile, P_named}

\* the file contents: with one statement to remove, with none, with two
Contents == {Join(S_single), Join(S_guard), Join(S_two)}

\* rglob('*.ts')
IsTs(f) == EndsWith(f, <<".ts">>)

\* rglob('*.tsx')
IsTsx(f) == EndsWith(f, <<".ts", "x">>)

\* what the environment does to the file's read and write
Outcomes == {"ok", "read_error", "write_error", "write_error_truncated"}

\* lines 106-112 with the write done whatever the count is
AfterReadAlwaysWrites(filepath, outcome, r) ==
    IF outcome = "ok"
    THEN [ret |-> r.count, error |-> FALSE,
          disk |-> [disk EXCEPT ![filepath] = r.text],
          reads |-> reads \cup {filepath},
          writes |-> writes \cup {<<filepath, r.text>>}]
    ELSE [ret |-> 0, error |-> TRUE,
          disk |-> IF outcome = "write_error_truncated"
                   THEN [disk EXCEPT ![filepath] = <<>>]
                   ELSE disk,
          reads |-> reads \cup {filepath},
          writes |-> writes \cup {<<filepath, r.text>>}]

\* lines 106-112: what follows the read, r being the stripper's result
AfterRead(filepath, outcome, r) ==
    IF r.count > 0
    THEN IF outcome = "ok"
         THEN [ret |-> r.count, error |-> FALSE,
               disk |-> [disk EXCEPT ![filepath] = r.text],
               reads |-> reads \cup {filepath},
               writes |-> writes \cup {<<filepath, r.text>>}]
         ELSE [ret |-> 0, error |-> TRUE,
               disk |-> IF outcome = "write_error_truncated"
                        THEN [disk EXCEPT ![filepath] = <<>>]
                        ELSE disk,
               reads |-> reads \cup {filepath},
               writes |-> writes \cup {<<filepath, r.text>>}]
    ELSE [ret |-> r.count, error |-> FALSE, disk |-> disk,
          reads |-> reads \cup {filepath}, writes |-> writes]

\* lines 105-112: the body of the try block
TryBody(filepath, outcome) ==
    IF outcome = "read_error"
    THEN [ret |-> 0, error |-> TRUE, disk |-> disk,
          reads |-> reads \cup {filepath}, writes |-> writes]
    ELSE AfterRead(filepath, outcome,
                   remove_console_statements(disk[filepath]))

\* the try block's error leaves the function: no except clause
Uncaught(filepath, b) ==
    [ret |-> b.ret, raised |-> b.error, disk |-> b.disk, reads |-> b.reads,
     writes |-> b.writes,
     failed |-> IF b.error THEN failed \cup {filepath} ELSE failed]

\* lines 104, 113-115: the try block's result, or 0 after an error
Caught(filepath, b) ==
    [ret |-> IF b.error THEN 0 ELSE b.ret, raised |-> FALSE,
     disk |-> b.disk, reads |-> b.reads, writes |-> b.writes,
     failed |-> IF b.error THEN failed \cup {filepath} ELSE failed]

\* lines 99-115
process_file(filepath, outcome) ==
    IF should_skip(filepath)
    THEN [ret |-> 0, raised |-> FALSE, disk |-> disk, reads |-> reads,
          writes |-> writes, failed |-> failed]
    ELSE Caught(filepath, TryBody(filepath, outcome))

\* the state at the start of main, no step-by-step scan running
RunInit ==
    /\ root_exists \in BOOLEAN
    /\ disk \in (IF root_exists THEN [Paths -> Contents] ELSE {NoFiles})
    /\ pending_ts = {}
    /\ pending_tsx = {}
    /\ main_pc = "start"
    /\ total_removed = 0
    /\ files_modified = 0
    /\ exit_status = -1
    /\ summary = <<>>
    /\ reads = {}
    /\ writes = {}
    /\ failed = {}
    /\ returned = {}
    /\ content = <<>>
    /\ lines = <<>>
    /\ i = 0
    /\ new_lines = <<>>
    /\ removed = 0
    /\ in_dev_block = FALSE
    /\ dev_block_depth = 0
    /\ kept = <<>>
    /\ dropped = {}
    /\ entered = {}
    /\ guarded = {}
    /\ pc = "idle"
    /\ result = NoResult
    /\ second = NoResult

\* lines 121-123, with a plain return in the place of sys.exit(1)
RootMissingReturns ==
    /\ main_pc = "start"
    /\ ~root_exists
    /\ main_pc' = "exited"
    /\ exit_status' = 0
    /\ UNCHANGED <<root_exists, disk, pending_ts, pending_tsx, total_removed,
                   files_modified, summary, reads, writes, failed, returned>>
    /\ UNCHANGED scanVars

\* lines 121-123
RootMissing ==
    /\ main_pc = "start"
    /\ ~root_exists
    /\ main_pc' = "exited"
    /\ exit_status' = 1
    /\ UNCHANGED <<root_exists, disk, pending_ts, pending_tsx, total_removed,
                   files_modified, summary, reads, writes, failed, returned>>
    /\ UNCHANGED scanVars

\* lines 125-131: the totals start at 0 and the first enumeration begins
Begin ==
    /\ main_pc = "start"
    /\ root_exists
    /\ total_removed' = 0
    /\ files_modified' = 0
    /\ pending_ts' = {f \in DOMAIN disk : IsTs(f)}
    /\ main_pc' = "ts"
    /\ UNCHANGED <<root_exists, disk, pending_tsx, exit_status, summary,
                   reads, writes, failed, returned>>
    /\ UNCHANGED scanVars

\* the loop body counting every file as modified
IterateCountsAll(filepath, r) ==
    /\ disk' = r.disk
    /\ reads' = r.reads
    /\ writes' = r.writes
    /\ failed' = r.failed
    /\ returned' = returned \cup {<<filepath, r.ret>>}
    /\ total_removed' = total_removed + r.ret
    /\ files_modified' = files_modified + 1
    /\ UNCHANGED <<main_pc, exit_status>>
    /\ UNCHANGED <<root_exists, summary>>

\* lines 132-135 and 138-141: the loop body, r being process_file's outcome
Iterate(filepath, r) ==
    /\ disk' = r.disk
    /\ reads' = r.reads
    /\ writes' = r.writes
    /\ failed' = r.failed
    /\ IF r.raised
       THEN /\ main_pc' = "exited"
            /\ exit_status' = 1
            /\ UNCHANGED <<total_removed, files_modified, returned>>
       ELSE /\ returned' = returned \cup {<<filepath, r.ret>>}
            /\ total_removed' =
                   IF r.ret > 0 THEN total_removed + r.ret ELSE total_removed
            /\ files_modified' =
                   IF r.ret > 0 THEN files_modified + 1 ELSE files_modified
            /\ UNCHANGED <<main_pc, exit_status>>
    /\ UNCHANGED <<root_exists, summary>>

\* lines 131-135
IterTs ==
    /\ main_pc = "ts"
    /\ \E f \in pending_ts, outcome \in Outcomes :
           /\ Iterate(f, process_file(f, outcome))
           /\ pending_ts' = pending_ts \ {f}
    /\ UNCHANGED pending_tsx
    /\ UNCHANGED scanVars

\* line 137: the first enumeration is over, the second begins
EndTs ==
    /\ main_pc = "ts"
    /\ pending_ts = {}
    /\ pending_tsx' = {f \in DOMAIN disk : IsTsx(f)}
    /\ main_pc' = "tsx"
    /\ UNCHANGED <<root_exists, disk, pending_ts, total_removed,
                   files_modified, exit_status, summary, reads, writes,
                   failed, returned>>
    /\ UNCHANGED scanVars

\* lines 137-141
IterTsx ==
    /\ main_pc = "tsx"
    /\ \E f \in pending_tsx, outcome \in Outcomes :
           /\ Iterate(f, process_file(f, outcome))
           /\ pending_tsx' = pending_tsx \ {f}
    /\ UNCHANGED pending_ts
    /\ UNCHANGED scanVars

\* line 143 and the return of main: the summary, exit status 0
Finish ==
    /\ main_pc = "tsx"
    /\ pending_tsx = {}
    /\ summary' = <<total_removed, files_modified>>
    /\ main_pc' = "exited"
    /\ exit_status' = 0
    /\ UNCHANGED <<root_exists, disk, pending_ts, pending_tsx, total_removed,
                   files_modified, reads, writes, failed, returned>>
    /\ UNCHANGED scanVars

RunNext ==
    \/ RootMissing
    \/ Begin
    \/ IterTs
    \/ EndTs
    \/ IterTsx
    \/ Finish

-----------------------------------------------------------------------------
(* The two specifications *)

\* remove_console_statements on every input text
Spec == Init /\ [][Next]_vars

\* main over every content of the source tree
RunSpec == RunInit /\ [][RunNext]_vars

-----------------------------------------------------------------------------
(* Vocabulary of the properties *)

Range(f) == {f[k] : k \in DOMAIN f}

\* the indices of the dropped lines
DroppedIdx == {d[1] : d \in dropped}

\* the start indices of the removed statements
Starts == {d[2] : d \in dropped}

\* the scan is over
Scanned == pc \in {"returned", "done"}

\* the line starts a call of console.log/warn/error/debug/info
IsTargetCall(line) == ConsoleStart(Strip(line))

\* the position of the first tok in s, 0 if there is none
FirstPos(s, tok) ==
    IF Contains(s, tok)
    THEN CHOOSE n \in 1..Len(s) : s[n] = tok /\ \A m \in 1..(n - 1) : s[m] # tok
    ELSE 0

\* the brace depth after the tokens, 0 from the token on that closes the block
RECURSIVE DepthAfter(_, _)
DepthAfter(toks, d) ==
    IF d = 0 \/ toks = <<>> THEN d
    ELSE DepthAfter(Tail(toks),
                    d + (IF Head(toks) = "{" THEN 1
                         ELSE IF Head(toks) = "}" THEN -1 ELSE 0))

\* the index of the first line from k on where a block of depth d closes, or -1
RECURSIVE CloseLine(_, _, _)
CloseLine(ls, k, d) ==
    IF k >= Len(ls) THEN -1
    ELSE IF DepthAfter(ls[k + 1], d) = 0 THEN k
    ELSE CloseLine(ls, k + 1, DepthAfter(ls[k + 1], d))

\* the tokens of the line after its first `{` that follows the marker
AfterOpening(line, marker) ==
    LET rest == SubSeq(line, FirstPos(line, marker) + 1, Len(line))
    IN  SubSeq(rest, FirstPos(rest, "{") + 1, Len(rest))

\* line j (0-based) holds the marker and, after it, the `{` opening a block
OpensBlock(ls, j, marker) ==
    /\ Contains(ls[j + 1], marker)
    /\ Contains(SubSeq(ls[j + 1], FirstPos(ls[j + 1], marker) + 1,
                       Len(ls[j + 1])), "{")

\* the index of the line holding the `}` that matches that `{`, or -1
BlockEnd(ls, j, marker) ==
    IF DepthAfter(AfterOpening(ls[j + 1], marker), 1) = 0 THEN j
    ELSE CloseLine(ls, j + 1, DepthAfter(AfterOpening(ls[j + 1], marker), 1))

-----------------------------------------------------------------------------
(* Properties of remove_console_statements (specification Spec) *)

\* C1: applying remove_console_statements to its own output returns the same
\* text again, with a removed count of 0.
C1_Idempotent ==
    pc = "done" => (second.text = result.text /\ second.count = 0)

\* C1 witness: a second pass over a non-empty output of a pass that removed
\* a statement.
C1_Witness ==
    pc = "done" /\ result.count > 0 /\ result.text # <<>>

\* C2: a target-call line strictly between a guard-entry line and the line
\* holding the matching closing brace of that block is retained and is not
\* counted as removed.
C2_GuardPreserved ==
    Scanned =>
        \A j \in 0..(Len(lines) - 1) :
            (GuardTrigger(lines[j + 1]) /\ OpensBlock(lines, j, "__DEV__")) =>
                \A k \in (j + 1)..(BlockEnd(lines, j, "__DEV__") - 1) :
                    IsTargetCall(lines[k + 1]) =>
                        (k \in Range(kept) /\ k \notin DroppedIdx)

\* C3: the lines scanned so far are split into the retained and the dropped
\* ones, every dropped line belongs to one statement and lies behind the
\* cursor, the retained lines are the input lines unchanged and in order, and
\* the number of output lines is the number of input lines less the dropped.
C3_Partition ==
    pc \in {"loop", "returned", "done"} =>
        /\ Range(kept) \cup DroppedIdx = 0..(i - 1)
        /\ Range(kept) \cap DroppedIdx = {}
        /\ \A d1, d2 \in dropped : d1[1] = d2[1] => d1 = d2
        /\ \A k1, k2 \in 1..Len(kept) : k1 < k2 => kept[k1] < kept[k2]
        /\ Len(new_lines) = Len(kept)
        /\ \A k \in 1..Len(kept) : new_lines[k] = lines[kept[k] + 1]
        /\ Len(new_lines) = i - Cardinality(dropped)
        /\ Scanned =>
              /\ i = Len(lines)
              /\ Len(new_lines) = Len(lines) - Cardinality(dropped)
              /\ result.text = Join(new_lines)
              /\ new_lines # <<>> => Split(result.text) = new_lines

\* C3 witness: a finished scan that retained a line with leading whitespace
\* and dropped a statement of more than one line.
C3_Witness ==
    /\ pc = "returned"
    /\ \E k \in 1..Len(new_lines) :
           new_lines[k] # <<>> /\ Head(new_lines[k]) = " "
    /\ \E d \in dropped : d[1] # d[2]

\* the removed count is the number of statements removed, each statement a
\* run of consecutive lines from its start line on
C4_CountIsStatements ==
    pc \in {"loop", "returned", "done"} =>
        /\ removed = Cardinality(Starts)
        /\ \A d \in dropped :
               \A k \in d[2]..d[1] : <<k, d[2]>> \in dropped
        /\ (Scanned /\ lines = S_two) => result.count = 2
        /\ (Scanned /\ lines = <<L_single, L_single>>) => result.count = 2
        /\ (Scanned /\ lines = S_multi) => result.count = 1
        /\ (Scanned /\ lines = <<L_open, L_plain, L_close>>) => result.count = 1
        /\ (Scanned /\ lines = <<L_plain, L_open, L_plain>>) => result.count = 1
        /\ Scanned => result.count = removed

\* C4: the removed count equals the number of target statements removed (one
\* per single-line statement and one per multi-line run, also a run cut off
\* by the end of the input) and never decreases.
C4_RemovedCount ==
    [](C4_CountIsStatements) /\ [][removed' >= removed]_vars

\* C4 witness: a finished scan that removed a single-line statement and a
\* multi-line run cut off by the end of the input.
C4_Witness ==
    /\ pc = "returned"
    /\ removed = 2
    /\ \E d \in dropped : d[1] # d[2] /\ d[1] = Len(lines) - 1
    /\ ParenDelta(lines[Len(lines)]) >= 0

\* the statement logs an error: a call of console.error
LogsError(line) == IsTargetCall(line) /\ LStrip(line)[3] = "error"

\* C9: a console statement that logs an error inside a catch block is
\* retained and is not counted as removed.
C9_CatchPreserved ==
    Scanned =>
        \A j \in 0..(Len(lines) - 1) :
            OpensBlock(lines, j, "catch") =>
                \A k \in (j + 1)..(BlockEnd(lines, j, "catch") - 1) :
                    LogsError(lines[k + 1]) =>
                        (k \in Range(kept) /\ k \notin DroppedIdx)

\* C10: once the line holding the closing brace that matches a guard entered
\* from Normal state has been handled, the scanner is in Normal state, and a
\* single-line target call on the next line is removed.
C10_GuardEndsAtMatchingBrace ==
    \A j \in entered :
        (OpensBlock(lines, j, "__DEV__")
            /\ BlockEnd(lines, j, "__DEV__") >= j) =>
            /\ (pc = "loop" /\ i = BlockEnd(lines, j, "__DEV__") + 1) =>
                   ~in_dev_block
            /\ (Scanned /\ BlockEnd(lines, j, "__DEV__") + 1 < Len(lines)
                  /\ Branch(lines, [InitialLocals EXCEPT
                                       !.i = BlockEnd(lines, j, "__DEV__") + 1])
                         = "single") =>
                   (BlockEnd(lines, j, "__DEV__") + 1) \in DroppedIdx

\* C11: in guarded-block mode with depth d, handling a line (also one that
\* holds the guard marker) sets the depth to d plus the line's brace balance,
\* and the scanner stays in guarded-block mode exactly when the result is > 0.
C11_DepthTransition ==
    [][(pc = "loop" /\ pc' = "loop" /\ in_dev_block /\ i' # i) =>
           /\ dev_block_depth' = dev_block_depth + BraceDelta(lines[i + 1])
           /\ in_dev_block' = (dev_block_depth' > 0)]_vars

\* the start line was removed by the single-line path
RemovedAsSingle(s) == s \in Starts /\ EndsClosed(Strip(lines[s + 1]))

\* C12: every statement removed as a single-line statement has as many `(`
\* as `)` on its line, and its trimmed line ends with `)` or `);`.
C12_SingleBalanced ==
    \A s \in Starts :
        RemovedAsSingle(s) =>
            /\ Count(lines[s + 1], "(") = Count(lines[s + 1], ")")
            /\ EndsClosed(Strip(lines[s + 1]))

\* the parenthesis balance of the lines s..k taken together
RECURSIVE RunningBalance(_, _, _)
RunningBalance(ls, s, k) ==
    IF k < s THEN 0
    ELSE RunningBalance(ls, s, k - 1)
             + Count(ls[k + 1], "(") - Count(ls[k + 1], ")")

\* the first line from s on where the running balance is <= 0, or the last
\* line of the input
SpanEnd(ls, s) ==
    LET closing == {k \in s..(Len(ls) - 1) : RunningBalance(ls, s, k) <= 0}
    IN  IF closing = {} THEN Len(ls) - 1
        ELSE CHOOSE k \in closing : \A m \in closing : k <= m

\* the lines dropped with the statement that starts at s
SpanOf(s) == {d[1] : d \in {e \in dropped : e[2] = s}}

\* C13: a start line scanned in Normal state whose trimmed text does not end
\* with `)` or `);` is dropped together with the lines up to and including
\* the first one where the running parenthesis balance is <= 0 (all the
\* remaining lines if there is none, the start line alone if its own balance
\* is <= 0), and the line after the span is scanned in Normal state.
C13_MultiSpan ==
    pc \in {"loop", "returned", "done"} =>
        /\ \A s \in Starts :
               ~EndsClosed(Strip(lines[s + 1])) =>
                   /\ SpanOf(s) = s..SpanEnd(lines, s)
                   /\ RunningBalance(lines, s, s) <= 0 => SpanOf(s) = {s}
                   /\ (pc = "loop" /\ i = SpanEnd(lines, s) + 1) =>
                          ~in_dev_block
        /\ \A k \in Range(kept) :
               IsTargetCall(lines[k + 1]) => k \in guarded

\* C13 witness: a finished scan that dropped a run of three lines or more
\* with a nested call in it, ending before the last line of the input.
C13_Witness ==
    /\ pc = "returned"
    /\ \E d \in dropped :
           /\ d[1] - d[2] >= 2
           /\ d[1] < Len(lines) - 1
           /\ \E k \in (d[2] + 1)..(d[1] - 1) : ParenDelta(lines[k + 1]) > 0

\* C14: the guard depth counter is >= 0 in every reachable state.
C14_DepthNonNegative ==
    dev_block_depth >= 0

\* C14 as amended: the guard depth counter is >= 1 whenever the scanner is in
\* guarded-block mode; outside it the counter is 0 before the first guard and
\* afterwards keeps the value <= 0 that ended the last block.
C14_DepthInGuard ==
    /\ in_dev_block => dev_block_depth >= 1
    /\ ~in_dev_block => dev_block_depth <= 0
    /\ guarded = {} => dev_block_depth = 0

\* C14 witness: the scan goes on in Normal state after a line that closed
\* more braces than the guarded block had open.
C14_Witness ==
    pc = "loop" /\ guarded # {} /\ ~in_dev_block /\ dev_block_depth < 0

\* the lines handled in guarded-block mode are retained unchanged and belong
\* to no removed statement; the entry lines are among them
C15_GuardedRetained ==
    /\ entered \subseteq guarded
    /\ guarded \cap DroppedIdx = {}
    /\ guarded \subseteq Range(kept)
    /\ \A n \in 1..Len(kept) :
           kept[n] \in guarded =>
               (n <= Len(new_lines) /\ new_lines[n] = lines[kept[n] + 1])

\* C15: no line handled in guarded-block mode (the entry line and every line
\* up to and including the one where the depth reaches <= 0) is dropped or
\* counted: each is appended unchanged; lines are dropped and the count is
\* incremented only in Normal state.
C15_GuardedNeverDropped ==
    /\ [](C15_GuardedRetained)
    /\ [][(pc = "loop" /\ pc' = "loop"
             /\ (removed' # removed \/ dropped' # dropped)) =>
              (~in_dev_block /\ ~GuardTrigger(lines[i + 1]))]_vars
    /\ [][(pc = "loop" /\ pc' = "loop" /\ i' # i
             /\ (in_dev_block \/ GuardTrigger(lines[i + 1]))) =>
              /\ new_lines' = Append(new_lines, lines[i + 1])
              /\ removed' = removed
              /\ dropped' = dropped
              /\ i' = i + 1]_vars

\* C15 witness: a finished scan that handled a target call in guarded-block
\* mode, left the mode, and removed a statement in Normal state.
C15_Witness ==
    /\ pc = "returned"
    /\ \E k \in guarded : IsTargetCall(lines[k + 1])
    /\ ~in_dev_block
    /\ \E s \in Starts : \A k \in guarded : k < s

\* the cursor stays within 0..len(lines), the iterations done so far are at
\* most the cursor, and the cursor is len(lines) when the scan ends
C16_CursorInRange ==
    /\ 0 <= i /\ i <= Len(lines)
    /\ Len(kept) + removed <= i
    /\ Scanned => i = Len(lines)

\* C16: the scan ends on every input: each iteration of the main loop moves
\* the cursor forward by at least one line, the cursor stays within
\* 0..len(lines) (the multi-line consumption does not read past the last
\* line), and it equals len(lines) when the scan ends.
C16_Termination ==
    /\ [](C16_CursorInRange)
    /\ [][(pc = "loop" /\ pc' = "loop") => i' > i]_vars

\* C16 witness: a finished scan whose last statement was cut off by the end
\* of the input with a parenthesis still open.
C16_Witness ==
    /\ pc = "returned"
    /\ i = Len(lines)
    /\ \E d \in dropped :
           /\ d[1] = Len(lines) - 1
           /\ d[2] < d[1]
           /\ RunningBalance(lines, d[2], d[1]) > 0

\* the number of lines of a text, the empty text having none
NumLines(text) == IF text = <<>> THEN 0 ELSE Len(Split(text))

\* C18: the removed count is 0 if and only if the returned text equals the
\* input text; with a count > 0 the output has strictly fewer lines than the
\* input.
C18_ZeroIffUnchanged ==
    Scanned =>
        /\ (result.count = 0) <=> (result.text = content)
        /\ result.count > 0 =>
               /\ Len(new_lines) < Len(lines)
               /\ NumLines(result.text) < NumLines(content)

\* C18 witness: a scan that removed every line of its input and returned the
\* empty text.
C18_Witness ==
    pc = "returned" /\ result.count > 0 /\ result.text = <<>>

\* C19: a line scanned in Normal state that is a target-call start and a
\* guard trigger is retained, is not counted, and puts the scanner in
\* guarded-block mode unless the depth computed on the line is <= 0.
C19_GuardPrecedence ==
    [][(pc = "loop" /\ pc' = "loop" /\ i' # i /\ ~in_dev_block
          /\ IsTargetCall(lines[i + 1]) /\ GuardTrigger(lines[i + 1])) =>
           /\ new_lines' = Append(new_lines, lines[i + 1])
           /\ removed' = removed
           /\ dropped' = dropped
           /\ i' = i + 1
           /\ dev_block_depth' = 1 + BraceDelta(lines[i + 1])
           /\ in_dev_block' = ~(1 + BraceDelta(lines[i + 1]) <= 0)]_vars

\* C19 witness: a target call that is a guard trigger was scanned in Normal
\* state and retained, and the line after it was handled in guarded-block
\* mode.
C19_Witness ==
    /\ pc = "returned"
    /\ \E k \in entered :
           /\ IsTargetCall(lines[k + 1])
           /\ k \in Range(kept)
           /\ (k + 1) \in guarded

-----------------------------------------------------------------------------
(* Properties of process_file and main (specification RunSpec) *)

\* the path contains one of the skip patterns as a substring
ContainsSkipPattern(f) == \E p \in SKIP_PATTERNS : IsSubstring(p, f)

\* the paths process_file has returned for
Processed == {r[1] : r \in returned}

\* the paths a write was invoked on
Written == {w[1] : w \in writes}

\* C5: for a path that contains a skip pattern, process_file returns 0 and
\* neither reads nor writes the file, whatever its content.
C5_SkipListTotality ==
    \A f \in Paths :
        ContainsSkipPattern(f) =>
            /\ f \notin reads
            /\ f \notin Written
            /\ \A r \in returned : r[1] = f => r[2] = 0

\* C5 witness: process_file has returned for a skipped file whose content
\* holds a statement the stripper would remove.
C5_Witness ==
    \E f \in Processed :
        /\ ContainsSkipPattern(f)
        /\ remove_console_statements(disk[f]).count > 0

\* a step of process_file on f: a write is invoked only when the stripper
\* reports a count > 0 for the content on disk, and then with the transformed
\* text and the same path; with a count of 0 the content stays as it was
C6_WriteStep(f) ==
    /\ (\E w \in writes' \ writes : w[1] = f) =>
           /\ remove_console_statements(disk[f]).count > 0
           /\ \A w \in writes' \ writes :
                  w[1] = f => w[2] = remove_console_statements(disk[f]).text
    /\ remove_console_statements(disk[f]).count = 0 =>
           /\ disk'[f] = disk[f]
           /\ \A w \in writes' \ writes : w[1] # f
    /\ (f \in Processed' \ Processed /\ f \in reads' /\ f \notin failed'
          /\ remove_console_statements(disk[f]).count > 0) =>
           /\ <<f, remove_console_statements(disk[f]).text>> \in writes'
           /\ disk'[f] = remove_console_statements(disk[f]).text

\* C6: process_file invokes a write only when the removed count is > 0; with
\* a count of 0 there is no write and the content on disk stays; with a count
\* > 0 the transformed text is written to the same path.
C6_NoWriteOnNoChange ==
    [][\A f \in DOMAIN disk : C6_WriteStep(f)]_vars

\* C6 witness: one file was read with a count of 0 and not written, another
\* was written with its transformed text.
C6_Witness ==
    /\ \E f \in reads \ failed : f \notin Written /\ f \in Processed
    /\ \E w \in writes : w[1] \notin failed /\ disk[w[1]] = w[2]

\* C7: a file whose read or write failed returns 0 and is not counted as
\* modified; the run goes on to every other file and ends with the summary
\* and exit status 0.
C7_ErrorContainment ==
    /\ \A f \in failed : \A r \in returned : r[1] = f => r[2] = 0
    /\ main_pc \in {"ts", "tsx"} => failed \subseteq Processed
    /\ files_modified = Cardinality({r \in returned : r[2] > 0})
    /\ (main_pc = "exited" /\ root_exists) =>
           /\ Processed = DOMAIN disk
           /\ failed \subseteq Processed
           /\ summary = <<total_removed, files_modified>>
           /\ exit_status = 0

\* C7 witness: a run that ended after a failed read, a failed write and a
\* file modified.
C7_Witness ==
    /\ main_pc = "exited"
    /\ \E f \in failed : f \in Written
    /\ \E f \in failed : f \notin Written
    /\ files_modified >= 1

\* C8: without the root directory the run ends with a non-zero exit status
\* and no file read or written; with it the run processes the files and ends
\* with exit status 0, whatever the number of statements removed.
C8_RootCheck ==
    /\ ~root_exists => (reads = {} /\ writes = {} /\ returned = {})
    /\ (main_pc = "exited" /\ ~root_exists) =>
           (exit_status # 0 /\ exit_status # -1)
    /\ (main_pc = "exited" /\ root_exists) =>
           (exit_status = 0 /\ Processed = DOMAIN disk)
    /\ main_pc # "exited" => exit_status = -1

\* C8 witness: the run has ended for a missing root directory.
C8_Witness ==
    main_pc = "exited" /\ ~root_exists /\ exit_status = 1

\* the sum of the values process_file returned
RECURSIVE SumRet(_)
SumRet(S) ==
    IF S = {} THEN 0
    ELSE LET r == CHOOSE x \in S : TRUE
         IN  r[2] + SumRet(S \ {r})

\* C17: the total of removed statements is the sum of the values
\* process_file returned, the number of modified files is the number of
\* files it returned a value > 0 for, each file is processed and counted at
\* most once, a skipped or failed file adds to neither, and the summary of a
\* run over an existing root reports these totals.
C17_SummaryTotals ==
    /\ total_removed = SumRet(returned)
    /\ files_modified = Cardinality({r \in returned : r[2] > 0})
    /\ \A r1, r2 \in returned : r1[1] = r2[1] => r1 = r2
    /\ \A r \in returned : r[2] >= 0
    /\ \A r \in returned :
           (ContainsSkipPattern(r[1]) \/ r[1] \in failed) => r[2] = 0
    /\ (main_pc = "exited" /\ root_exists) =>
           /\ Processed = DOMAIN disk
           /\ summary = <<SumRet(returned),
                          Cardinality({r \in returned : r[2] > 0})>>

\* C17 witness: a run that ended after a skipped file, a failed file, a file
\* with one statement removed and a file with two.
C17_Witness ==
    /\ main_pc = "exited"
    /\ failed # {}
    /\ \E r \in returned : r[2] = 1
    /\ \E r \in returned : r[2] = 2
    /\ summary[1] > summary[2]

=============================================================================
